---- MODULE Spec2Model ----
(***************************************************************************)
(* Model of the logs-hook service: the webhook event store (event.py), the  *)
(* visitor store with its (page, ip) upsert (public.py, db.py) and the      *)
(* client context extractor that derives the client ip from the request     *)
(* headers.                                                                 *)
(*                                                                          *)
(* Strings are sequences of atoms.  An address literal ("ip1", "ip2",       *)
(* "ip3") is one atom: it contains no comma, blank or quote, so split and   *)
(* strip act on atoms exactly as they act on characters, and a string is a  *)
(* valid address iff it is exactly one address atom.                        *)
(*                                                                          *)
(* The handlers are coroutines: a handler runs without interruption up to   *)
(* an await of the store, so each action is the code from one await to the  *)
(* next, and requests interleave at those points only.                      *)
(*                                                                          *)
(* The startup event and init_db are modelled on their own (SpecStartup).   *)
(* Everywhere else the store is the one db.py declares, taken as           *)
(* initialised: the unique index on (page, ip) refuses a duplicate key      *)
(* (the handler answers 500),                                               *)
(* Document.save() writes the document under its id whether or not it is    *)
(* still stored, Document.delete() of a document already gone removes       *)
(* nothing and raises nothing, and a sort on created_at leaves the order of *)
(* documents with equal created_at to the store.                            *)
(***************************************************************************)
EXTENDS Integers, Sequences, FiniteSets, TLC

\* ------------------------------------------------------------------ bounds
MaxXff == 3
MaxXri == 1

\* ------------------------------------------------------------------ values
\* Python's None, and "key not in dict", as values of the string sort.
None == <<"None">>
Absent == <<"Absent">>

IpAtoms == {"ip1", "ip2", "ip3"}
Blank == " "
Comma == ","
Quotes == {"'", "\""}

SeqsUpTo(S, n) == UNION {[1..k -> S] : k \in 0..n}

\* Python truthiness of an Optional[str]
Truthy(s) == s # None /\ s # Absent /\ s # <<>>

\* ------------------------------------------------------------------ strings
\* str.strip(chars): drop the leading and trailing atoms that are in chars
RECURSIVE LStrip(_, _)
LStrip(s, chars) ==
    IF s # <<>> /\ Head(s) \in chars THEN LStrip(Tail(s), chars) ELSE s

RECURSIVE RStrip(_, _)
RStrip(s, chars) ==
    IF s # <<>> /\ s[Len(s)] \in chars
    THEN RStrip(SubSeq(s, 1, Len(s) - 1), chars)
    ELSE s

StripChars(s, chars) == RStrip(LStrip(s, chars), chars)

\* str.split(","): the segments between commas, empty segments included
RECURSIVE SplitFrom(_, _)
SplitFrom(s, cur) ==
    IF s = <<>> THEN <<cur>>
    ELSE IF Head(s) = Comma THEN <<cur>> \o SplitFrom(Tail(s), <<>>)
    ELSE SplitFrom(Tail(s), Append(cur, Head(s)))

Split(s) == SplitFrom(s, <<>>)

\* ------------------------------------------------------------------ public.py
_normalize_header_value(v) ==
    IF v = None THEN <<>> ELSE StripChars(v, {Blank})

RECURSIVE FirstNonEmpty(_)
FirstNonEmpty(parts) ==
    IF parts = <<>> THEN None
    ELSE LET ip == StripChars(StripChars(Head(parts), {Blank}), Quotes)
         IN  IF ip # <<>> THEN ip ELSE FirstNonEmpty(Tail(parts))

_first_ip_from_xff(xff_value) ==
    IF xff_value = <<>> THEN None ELSE FirstNonEmpty(Split(xff_value))

_valid_ip(s) == Truthy(s) /\ Len(s) = 1 /\ s[1] \in IpAtoms

\* req.client is None (NoClient) or has a host string
NoClient == <<"NoClient">>

\* client_ip with the peer address consulted before X-Real-IP
client_ip_peer_first(hxff, hxri, hpeer) ==
    LET xff_raw == _normalize_header_value(hxff)
        ip1 == _first_ip_from_xff(xff_raw)
        xri_ == _normalize_header_value(hxri)
        ip2 == IF _valid_ip(ip1) THEN ip1
               ELSE IF hpeer # NoClient /\ _valid_ip(hpeer) THEN hpeer ELSE None
        ip3 == IF _valid_ip(ip2) THEN ip2
               ELSE IF _valid_ip(xri_) THEN xri_ ELSE None
    IN  ip3

client_ip(hxff, hxri, hpeer) ==
    LET xff_raw == _normalize_header_value(hxff)
        ip1 == _first_ip_from_xff(xff_raw)
        xri_ == _normalize_header_value(hxri)
        ip2 == IF _valid_ip(ip1) THEN ip1
               ELSE IF _valid_ip(xri_) THEN xri_ ELSE None
        ip3 == IF _valid_ip(ip2) THEN ip2
               ELSE IF hpeer # NoClient /\ _valid_ip(hpeer) THEN hpeer ELSE None
    IN  ip3

\* ------------------------------------------------------------------ event.py
hook_client_ip(hxff, hpeer) ==
    IF Truthy(hxff) THEN StripChars(Split(hxff)[1], {Blank})
    ELSE IF hpeer # NoClient THEN hpeer ELSE None

\* ------------------------------------------------------------------ state
VARIABLES
    xff, xri, peer,     \* extractor inputs: the two headers and the peer address
    ipRes, hookRes,     \* what public.client_ip and event.client_ip returned
    pub,                \* the public_events collection: a set of documents
    ev,                 \* the webhook_events collection: a set of documents
    req,                \* per request slot: the handler's position and locals
    clock,              \* int(time.time())
    nextId,             \* the next store-assigned document id
    qs,                 \* a client's list, list, export calls and their answers
    db                  \* db.py's module state and the startup event of the app

ipVars == <<xff, xri, peer, ipRes, hookRes>>
storeVars == <<pub, ev, req, clock, nextId>>
vars == <<xff, xri, peer, ipRes, hookRes, pub, ev, req, clock, nextId, qs, db>>

\* ------------------------------------------------------------------ startup
\* the two ASGI applications of the repository: app.py's app and main.py's app
Entries == {"app", "main"}

\* the process once the modules are imported: _client is None, no document
\* model is registered and the startup event has not been sent
Boot(entry) ==
    [entry |-> entry, startup |-> "pending", client |-> "none",
     models |-> FALSE, coroutine |-> "none"]

\* db.py: the body of init_db run to its end by whoever awaits it: nothing when
\* _client is set; else the client is made, and either the ping raises or
\* init_beanie registers the document models
init_db_body(d) ==
    IF d.client # "none" THEN {[d EXCEPT !.coroutine = "finished"]}
    ELSE {[d EXCEPT !.client = "motor", !.models = TRUE, !.coroutine = "finished"],
          [d EXCEPT !.client = "motor", !.coroutine = "raised"]}

\* a call init_db() of the coroutine function: awaited, the body runs to its
\* end; not awaited, the call builds a coroutine object and runs no line of
\* the body, and the object is dropped
init_db(awaited, d) ==
    IF awaited THEN init_db_body(d)
    ELSE {[d EXCEPT !.coroutine = "never awaited"]}

\* the store as the request handlers need it: init_db run to completion
Ready ==
    [entry |-> "app", startup |-> "done", client |-> "motor",
     models |-> TRUE, coroutine |-> "finished"]

\* ------------------------------------------------------------------ extractor
XffAtoms == {"ip1", "x", Comma, Blank, "'"}
XriAtoms == {"ip2", "x", Blank}
XffValues == {None} \cup SeqsUpTo(XffAtoms, MaxXff)
XriValues == {None} \cup SeqsUpTo(XriAtoms, MaxXri)
PeerValues == {NoClient, <<"ip3">>, <<"x">>}

Unset == <<"Unset">>

InitIp ==
    /\ xff \in XffValues
    /\ xri \in XriValues
    /\ peer \in PeerValues
    /\ ipRes = Unset
    /\ hookRes = Unset
    /\ pub = {}
    /\ ev = {}
    /\ req = <<>>
    /\ clock = 0
    /\ nextId = 0
    /\ qs = <<>>
    /\ db = Ready

PublicExtract ==
    /\ ipRes = Unset
    /\ ipRes' = client_ip(xff, xri, peer)
    /\ UNCHANGED <<xff, xri, peer, hookRes>>
    /\ UNCHANGED <<storeVars, qs, db>>

HookExtract ==
    /\ hookRes = Unset
    /\ hookRes' = hook_client_ip(xff, peer)
    /\ UNCHANGED <<xff, xri, peer, ipRes>>
    /\ UNCHANGED <<storeVars, qs, db>>

NextIp == PublicExtract \/ HookExtract

SpecIp == InitIp /\ [][NextIp]_vars

\* ------------------------------------------------------------------ stores
\* Bounds of the store model: the clock runs to MaxTime and at most MaxId
\* documents are ever inserted.  Procs are the requests served concurrently.
MaxTime == 2
MaxId == 2
Procs == {"p1", "p2"}

NoId == 0
NoTs == -1
Ids == 1..MaxId

Pages == {<<"/a">>}
\* the headers of a tracked request and the ip field of its visitor_info
TrackClients ==
    { [xff |-> None, xri |-> None, peer |-> NoClient, vi_ip |-> Absent],
      [xff |-> <<"ip1">>, xri |-> None, peer |-> <<"ip3">>, vi_ip |-> <<>>],
      [xff |-> <<"ip1">>, xri |-> None, peer |-> <<"ip3">>, vi_ip |-> <<"ip2">>] }
TrackBodies ==
    { [ref |-> None, ua |-> None],
      [ref |-> <<"r">>, ua |-> <<"u">>] }

\* public.py: client_ua
client_ua(hua) == _normalize_header_value(hua)

\* public.py: the ip the handler tracks always taken from the server
FinalIp_server_only(vi_ip, server_ip) == server_ip

\* public.py: the ip the handler tracks, from visitor_info when it has one
FinalIp(vi_ip, server_ip) ==
    IF vi_ip = Absent \/ ~Truthy(vi_ip) THEN server_ip ELSE vi_ip

IpSource(vi_ip) == IF Truthy(vi_ip) THEN "visitor_info" ELSE "server"

PublicPayload(page, ref, ip, ua) ==
    [path |-> page, ref |-> ref, data |-> [ip |-> ip, user_agent |-> ua]]

PublicEvent(id, page, ref, ip, ua, created_at) ==
    [id |-> id, page |-> page, ref |-> ref, ip |-> ip, user_agent |-> ua,
     payload |-> PublicPayload(page, ref, ip, ua), created_at |-> created_at]

\* db.py: no unique index on public_events
DuplicateKey_no_index(store, doc) == FALSE

\* db.py: the unique index ux_public_events_page_ip refuses a write that would
\* leave two documents with the same (page, ip); a null ip is a key like any other
DuplicateKey(store, doc) ==
    \E d \in store : d.id # doc.id /\ d.page = doc.page /\ d.ip = doc.ip

WebhookEvent(id, type, user_id, ip, ua, created_at) ==
    [id |-> id, event_type |-> type, user_id |-> user_id, ip |-> ip,
     user_agent |-> ua, payload |-> [type |-> type, user_id |-> user_id],
     created_at |-> created_at]

\* the query parameters of the list and export endpoints of either store
NoFilter ==
    [event_type |-> None, user_id |-> None, from_ts |-> NoTs, to_ts |-> NoTs,
     q |-> None, page |-> None]

\* a request slot: the handler it runs, where it is, its locals and its response
Idle ==
    [kind |-> "idle", pc |-> "idle", page |-> None, server_ip |-> None,
     vi_ip |-> Absent, final_ip |-> None, ref |-> None, ua |-> None,
     created_at |-> 0, existing |-> NoId, target |-> NoId,
     confirm |-> FALSE, unfiltered |-> FALSE,
     f |-> NoFilter, all |-> FALSE, total |-> 0, count |-> 0, limit |-> 0,
     status |-> 0, action |-> "", id |-> NoId, ip_source |-> "", deleted |-> 0]

\* documents the handlers in flight may still insert
Pending ==
    Cardinality({q \in Procs : req[q].kind = "track" /\ req[q].pc = "write"
                               /\ req[q].existing = NoId})

Init ==
    /\ xff = None
    /\ xri = None
    /\ peer = NoClient
    /\ ipRes = Unset
    /\ hookRes = Unset
    /\ pub = {}
    /\ ev = {}
    /\ req = [p \in Procs |-> Idle]
    /\ clock = 1
    /\ nextId = 0
    /\ qs = <<>>
    /\ db = Ready

Tick ==
    /\ clock < MaxTime
    /\ clock' = clock + 1
    /\ UNCHANGED <<pub, ev, req, nextId>>
    /\ UNCHANGED <<ipVars, qs, db>>

\* the response has been sent; the slot serves the next request
Return(p) ==
    /\ req[p].pc = "done"
    /\ req' = [req EXCEPT ![p] = Idle]
    /\ UNCHANGED <<pub, ev, clock, nextId>>
    /\ UNCHANGED <<ipVars, qs, db>>

\* ------------------------------------------------------------------ POST /public
\* public_track up to and including the find_one it awaits; created_at is the
\* clock at the time of the lookup
TrackFind(p) ==
    /\ req[p].pc = "idle"
    /\ nextId + Pending < MaxId
    /\ \E page \in Pages, h \in TrackClients, b \in TrackBodies :
         LET server_ip == client_ip(h.xff, h.xri, h.peer)
             vi == h.vi_ip
             final_ip == FinalIp(vi, server_ip)
             found == {d \in pub : d.page = page /\ d.ip = final_ip}
         IN  req' = [req EXCEPT ![p] =
                 [Idle EXCEPT !.kind = "track", !.pc = "write", !.page = page,
                              !.server_ip = server_ip, !.vi_ip = vi,
                              !.final_ip = final_ip, !.ref = b.ref,
                              !.ua = client_ua(b.ua), !.created_at = clock,
                              !.existing = IF found = {} THEN NoId
                                           ELSE (CHOOSE d \in found : TRUE).id]]
    /\ UNCHANGED <<pub, ev, clock, nextId>>
    /\ UNCHANGED <<ipVars, qs, db>>

\* the update branch with the assignment to existing.ref left out of the write
UpdatedDoc_ref_dropped(id, r) ==
    [PublicEvent(id, r.page, r.ref, r.final_ip, r.ua, r.created_at)
        EXCEPT !.ref = None]

\* the found document after the four assignments of the update branch; its
\* page and ip are those it was looked up by
UpdatedDoc(id, r) ==
    PublicEvent(id, r.page, r.ref, r.final_ip, r.ua, r.created_at)

\* public_track from the result of find_one on: existing.save() or doc.insert(),
\* and the response; a DuplicateKeyError is caught and answered with 500.
\* save() writes the document under its id whether or not it is still stored.
TrackWrite(p) ==
    LET r == req[p]
        doc_id == IF r.existing # NoId THEN r.existing ELSE nextId + 1
        doc == IF r.existing # NoId THEN UpdatedDoc(doc_id, r)
               ELSE PublicEvent(doc_id, r.page, r.ref, r.final_ip, r.ua, r.created_at)
    IN  /\ r.kind = "track"
        /\ r.pc = "write"
        /\ IF DuplicateKey(pub, doc)
           THEN /\ req' = [req EXCEPT ![p] =
                      [Idle EXCEPT !.kind = "track", !.pc = "done",
                                   !.status = 500]]
                /\ UNCHANGED <<pub, nextId>>
           ELSE /\ pub' = {d \in pub : d.id # doc_id} \cup {doc}
                /\ nextId' = IF r.existing # NoId THEN nextId ELSE nextId + 1
                /\ req' = [req EXCEPT ![p] =
                      [Idle EXCEPT !.kind = "track", !.pc = "done",
                                   !.status = 200, !.id = doc_id,
                                   !.action = IF r.existing # NoId
                                              THEN "updated" ELSE "created",
                                   !.ip_source = IpSource(r.vi_ip)]]
        /\ UNCHANGED <<ev, clock>>
        /\ UNCHANGED <<ipVars, qs, db>>

\* ------------------------------------------------------------------ DELETE /public/{id}
\* delete_public_by_id up to and including the get it awaits
DeletePublicGet(p) ==
    /\ req[p].pc = "idle"
    /\ \E id \in Ids :
         IF \E d \in pub : d.id = id
         THEN req' = [req EXCEPT ![p] =
                  [Idle EXCEPT !.kind = "delete_public", !.pc = "delete",
                               !.target = id]]
         ELSE req' = [req EXCEPT ![p] =
                  [Idle EXCEPT !.kind = "delete_public", !.pc = "done",
                               !.status = 404]]
    /\ UNCHANGED <<pub, ev, clock, nextId>>
    /\ UNCHANGED <<ipVars, qs, db>>

\* delete_public_by_id from d.delete() on: the result of the delete is not read
DeletePublicDelete(p) ==
    /\ req[p].kind = "delete_public"
    /\ req[p].pc = "delete"
    /\ pub' = {d \in pub : d.id # req[p].target}
    /\ req' = [req EXCEPT ![p] =
          [Idle EXCEPT !.kind = "delete_public", !.pc = "done", !.status = 200,
                       !.deleted = 1]]
    /\ UNCHANGED <<ev, clock, nextId>>
    /\ UNCHANGED <<ipVars, qs, db>>

\* ------------------------------------------------------------------ DELETE /public
NoPublicFilter == [page |-> None, ip |-> None, from_ts |-> NoTs, to_ts |-> NoTs]

PublicDeleteFilters ==
    { NoPublicFilter,
      [NoPublicFilter EXCEPT !.page = <<"/a">>],
      [NoPublicFilter EXCEPT !.page = <<>>, !.ip = <<"ip1">>],
      [NoPublicFilter EXCEPT !.ip = <<>>, !.to_ts = 1],
      [NoPublicFilter EXCEPT !.from_ts = 2] }

InRange(t, from_ts, to_ts) ==
    /\ from_ts # NoTs => t >= from_ts
    /\ to_ts # NoTs => t <= to_ts

\* the documents the conditions of delete_public_events select
PublicDeleteMatches(store, f) ==
    {d \in store :
        /\ Truthy(f.page) => d.page = f.page
        /\ Truthy(f.ip) => d.ip = f.ip
        /\ InRange(d.created_at, f.from_ts, f.to_ts)}

\* delete_public_events with the confirm check left out
delete_public_refused_never(confirm) == FALSE

\* delete_public_events: if not confirm: raise HTTPException(400)
delete_public_refused(confirm) == ~confirm

\* delete_public_events: no condition was built from the parameters
PublicConditionsEmpty(f) ==
    ~Truthy(f.page) /\ ~Truthy(f.ip) /\ f.from_ts = NoTs /\ f.to_ts = NoTs

\* the whole handler: the delete is its only await
delete_public_events(p) ==
    /\ req[p].pc = "idle"
    /\ \E f \in PublicDeleteFilters, confirm \in BOOLEAN :
         LET r == [Idle EXCEPT !.kind = "bulk_public", !.pc = "done",
                               !.confirm = confirm,
                               !.unfiltered = PublicConditionsEmpty(f)]
         IN  IF delete_public_refused(confirm)
             THEN /\ req' = [req EXCEPT ![p] = [r EXCEPT !.status = 400]]
                  /\ pub' = pub
             ELSE LET matched == IF PublicConditionsEmpty(f) THEN pub
                                 ELSE PublicDeleteMatches(pub, f)
                  IN  /\ pub' = pub \ matched
                      /\ req' = [req EXCEPT ![p] =
                            [r EXCEPT !.status = 200,
                                      !.deleted = Cardinality(matched)]]
    /\ UNCHANGED <<ev, clock, nextId>>
    /\ UNCHANGED <<ipVars, qs, db>>

\* ------------------------------------------------------------------ POST /hook
\* the body and the headers of a webhook request
HookRequests ==
    { [type |-> <<"log">>, user_id |-> None,
       xff |-> None, peer |-> <<"ip3">>, ua |-> None],
      [type |-> <<"login">>, user_id |-> <<"u1">>,
       xff |-> <<"x", Comma, "ip1">>, peer |-> <<"ip3">>, ua |-> <<"U">>] }

\* hook: the whole handler, its only await being the insert
hook(p) ==
    /\ req[p].pc = "idle"
    /\ nextId + Pending < MaxId
    /\ \E evt \in HookRequests :
         LET ip == hook_client_ip(evt.xff, evt.peer)
             doc == WebhookEvent(nextId + 1, evt.type, evt.user_id, ip, evt.ua, clock)
         IN  /\ ev' = ev \cup {doc}
             /\ nextId' = nextId + 1
             /\ req' = [req EXCEPT ![p] =
                   [Idle EXCEPT !.kind = "hook", !.pc = "done", !.status = 200,
                                !.id = doc.id]]
    /\ UNCHANGED <<pub, clock>>
    /\ UNCHANGED <<ipVars, qs, db>>

\* ------------------------------------------------------------------ DELETE /events/{id}
DeleteEventGet(p) ==
    /\ req[p].pc = "idle"
    /\ \E id \in Ids :
         IF \E d \in ev : d.id = id
         THEN req' = [req EXCEPT ![p] =
                  [Idle EXCEPT !.kind = "delete_event", !.pc = "delete",
                               !.target = id]]
         ELSE req' = [req EXCEPT ![p] =
                  [Idle EXCEPT !.kind = "delete_event", !.pc = "done",
                               !.status = 404]]
    /\ UNCHANGED <<pub, ev, clock, nextId>>
    /\ UNCHANGED <<ipVars, qs, db>>

DeleteEventDelete(p) ==
    /\ req[p].kind = "delete_event"
    /\ req[p].pc = "delete"
    /\ ev' = {d \in ev : d.id # req[p].target}
    /\ req' = [req EXCEPT ![p] =
          [Idle EXCEPT !.kind = "delete_event", !.pc = "done", !.status = 200,
                       !.deleted = 1]]
    /\ UNCHANGED <<pub, clock, nextId>>
    /\ UNCHANGED <<ipVars, qs, db>>

\* ------------------------------------------------------------------ filters
\* case folding of an atom, for the "i" option of $regex
Lower(a) == IF a = "U" THEN "u" ELSE IF a = "R" THEN "r" ELSE a
LowerStr(s) == [i \in 1..Len(s) |-> Lower(s[i])]

Contains(needle, hay) ==
    \E i \in 0..(Len(hay) - Len(needle)) :
        \A j \in 1..Len(needle) : hay[i + j] = needle[j]

\* {field: {"$regex": q, "$options": "i"}}: a field that holds no string (a null,
\* an embedded document) never matches
RegexMatch(q, value) ==
    /\ value # None
    /\ Contains(LowerStr(q), LowerStr(value))

\* the payload fields are embedded documents
PayloadRegexMatch(q, payload) == FALSE

\* the documents the conditions of delete_events select
EventDeleteMatches(store, f) ==
    {d \in store :
        /\ Truthy(f.event_type) => d.event_type = f.event_type
        /\ Truthy(f.user_id) => d.user_id = f.user_id
        /\ InRange(d.created_at, f.from_ts, f.to_ts)
        /\ Truthy(f.q) => (PayloadRegexMatch(f.q, d.payload)
                           \/ RegexMatch(f.q, d.user_agent))}

\* ------------------------------------------------------------------ DELETE /events
NoEventFilter ==
    [event_type |-> None, user_id |-> None, from_ts |-> NoTs, to_ts |-> NoTs,
     q |-> None]

EventDeleteFilters ==
    { NoEventFilter,
      [NoEventFilter EXCEPT !.event_type = <<"log">>],
      [NoEventFilter EXCEPT !.event_type = <<>>, !.user_id = <<"u1">>, !.to_ts = 1],
      [NoEventFilter EXCEPT !.user_id = <<>>, !.from_ts = 2],
      [NoEventFilter EXCEPT !.q = <<"u">>],
      [NoEventFilter EXCEPT !.q = <<>>] }

\* delete_events: if not confirm: raise HTTPException(400)
delete_events_refused(confirm) == ~confirm

\* delete_events: no condition was built from the parameters
EventConditionsEmpty(f) ==
    /\ ~Truthy(f.event_type) /\ ~Truthy(f.user_id)
    /\ f.from_ts = NoTs /\ f.to_ts = NoTs /\ ~Truthy(f.q)

\* the whole handler: the delete is its only await
delete_events(p) ==
    /\ req[p].pc = "idle"
    /\ \E f \in EventDeleteFilters, confirm \in BOOLEAN :
         LET r == [Idle EXCEPT !.kind = "bulk_events", !.pc = "done",
                               !.confirm = confirm,
                               !.unfiltered = EventConditionsEmpty(f)]
         IN  IF delete_events_refused(confirm)
             THEN /\ req' = [req EXCEPT ![p] = [r EXCEPT !.status = 400]]
                  /\ ev' = ev
             ELSE LET matched == IF EventConditionsEmpty(f) THEN ev
                                 ELSE EventDeleteMatches(ev, f)
                  IN  /\ ev' = ev \ matched
                      /\ req' = [req EXCEPT ![p] =
                            [r EXCEPT !.status = 200,
                                      !.deleted = Cardinality(matched)]]
    /\ UNCHANGED <<pub, clock, nextId>>
    /\ UNCHANGED <<ipVars, qs, db>>

\* ------------------------------------------------------------------ Spec
\* the visitor store under concurrent requests
Next ==
    \/ Tick
    \/ \E p \in Procs :
        \/ TrackFind(p)
        \/ TrackWrite(p)
        \/ DeletePublicGet(p)
        \/ DeletePublicDelete(p)
        \/ delete_public_events(p)
        \/ Return(p)

Spec == Init /\ [][Next]_vars

\* the webhook event store under concurrent requests
NextEvents ==
    \/ Tick
    \/ \E p \in Procs :
        \/ hook(p)
        \/ DeleteEventGet(p)
        \/ DeleteEventDelete(p)
        \/ delete_events(p)
        \/ Return(p)

SpecEvents == Init /\ [][NextEvents]_vars

\* ------------------------------------------------------------------ queries
MAX_LIMIT == 200

\* Bounds of the query model: a store holds at most MaxDocs documents, stamped
\* 1..MaxStamp, and a page holds at most MaxLimit documents.
MaxDocs == 2
MaxStamp == 2
MaxLimit == 2

Min(a, b) == IF a < b THEN a ELSE b
Max(a, b) == IF a > b THEN a ELSE b


\* list_events: the find() the count and the page are taken from
EventListMatches(store, f) ==
    {d \in store :
        /\ Truthy(f.event_type) => d.event_type = f.event_type
        /\ Truthy(f.user_id) => d.user_id = f.user_id
        /\ InRange(d.created_at, f.from_ts, f.to_ts)
        /\ Truthy(f.q) => (PayloadRegexMatch(f.q, d.payload)
                           \/ RegexMatch(f.q, d.user_agent))}

\* export_events without its time range condition
EventExportMatches_no_range(store, f) ==
    {d \in store :
        /\ Truthy(f.event_type) => d.event_type = f.event_type
        /\ Truthy(f.user_id) => d.user_id = f.user_id
        /\ Truthy(f.q) => (PayloadRegexMatch(f.q, d.payload)
                           \/ RegexMatch(f.q, d.user_agent))}

\* export_events: the find() the export is taken from
EventExportMatches(store, f) ==
    {d \in store :
        /\ Truthy(f.event_type) => d.event_type = f.event_type
        /\ Truthy(f.user_id) => d.user_id = f.user_id
        /\ InRange(d.created_at, f.from_ts, f.to_ts)
        /\ Truthy(f.q) => (PayloadRegexMatch(f.q, d.payload)
                           \/ RegexMatch(f.q, d.user_agent))}

\* list_public: filt
PublicListMatches(store, f) ==
    {d \in store :
        /\ Truthy(f.page) => RegexMatch(f.page, d.page)
        /\ Truthy(f.q) => (PayloadRegexMatch(f.q, d.payload)
                           \/ RegexMatch(f.q, d.user_agent)
                           \/ RegexMatch(f.q, d.ref))}

\* export_public: filt
PublicExportMatches(store, f) ==
    {d \in store :
        /\ Truthy(f.page) => RegexMatch(f.page, d.page)
        /\ Truthy(f.q) => (PayloadRegexMatch(f.q, d.payload)
                           \/ RegexMatch(f.q, d.user_agent)
                           \/ RegexMatch(f.q, d.ref))}

\* sort(-created_at): the documents newest first; the order among documents
\* with the same created_at is whatever the store produces for that query
SortedDesc(S) ==
    {s \in [1..Cardinality(S) -> S] :
        /\ \A i, j \in 1..Cardinality(S) : i # j => s[i] # s[j]
        /\ \A i, j \in 1..Cardinality(S) :
              i < j => s[i].created_at >= s[j].created_at}

\* skip(offset).limit(limit)
SkipLimit(s, offset, limit) ==
    SubSeq(s, offset + 1, Min(Len(s), offset + limit))

IdsOf(s) == [i \in 1..Len(s) |-> s[i].id]

\* list_events: {total, items}; limit is validated to 1..MAX_LIMIT by the route
ListEventsResults(store, f, offset, limit) ==
    {[total |-> Cardinality(EventListMatches(store, f)),
      items |-> IdsOf(SkipLimit(s, offset, limit))] :
        s \in SortedDesc(EventListMatches(store, f))}

ExportEventsResults(store, f) ==
    {IdsOf(s) : s \in SortedDesc(EventExportMatches(store, f))}

\* the limit parameter "all" of GET /public
AllLimit == -1

\* list_public: {total, items, limit}
ListPublicResults(store, f, offset, limit) ==
    LET total == Cardinality(PublicListMatches(store, f))
        lim_int == Max(1, Min(MAX_LIMIT, limit))
    IN  {[total |-> total,
          items |-> IF limit = AllLimit THEN IdsOf(s)
                    ELSE IdsOf(SkipLimit(s, offset, lim_int)),
          limit |-> IF limit = AllLimit THEN total ELSE lim_int] :
            s \in SortedDesc(PublicListMatches(store, f))}

ExportPublicResults(store, f) ==
    {IdsOf(s) : s \in SortedDesc(PublicExportMatches(store, f))}

\* ------------------------------------------------------------------ stores at rest
\* The stores a running service can hold: webhook documents as POST /hook
\* writes them, visitor documents as POST /public writes them, no two of the
\* latter with the same (page, ip).
QueryPages == {<<"/a">>, <<"/a", "b">>}
QueryClients == {t \in TrackClients : t.vi_ip = Absent \/ t.vi_ip = <<>>}

EventDocs(id) ==
    {WebhookEvent(id, e.type, e.user_id, hook_client_ip(e.xff, e.peer), e.ua, t) :
        e \in HookRequests, t \in 1..MaxStamp}

PublicDocs(id) ==
    {PublicEvent(id, page, b.ref,
                 FinalIp(c.vi_ip, client_ip(c.xff, c.xri, c.peer)),
                 client_ua(b.ua), t) :
        page \in QueryPages, c \in QueryClients, b \in TrackBodies, t \in 1..MaxStamp}

RECURSIVE StoresOf(_, _, _)
\* the sets of n documents with ids first+1 .. first+n, doc(id) giving the choices
StoresOf(doc(_), first, n) ==
    IF n = 0 THEN {{}}
    ELSE {S \cup {d} : S \in StoresOf(doc, first, n - 1), d \in doc(first + n)}

KeysUnique(S) ==
    \A d1 \in S, d2 \in S : (d1.page = d2.page /\ d1.ip = d2.ip) => d1 = d2

NoSeq == <<-1>>
NoSession ==
    [store |-> "none", f |-> NoFilter, limit |-> 0, step |-> 0, total |-> -1,
     page1 |-> NoSeq, page2 |-> NoSeq, exp |-> NoSeq]

InitStores ==
    /\ xff = None
    /\ xri = None
    /\ peer = NoClient
    /\ ipRes = Unset
    /\ hookRes = Unset
    /\ \E n \in 0..MaxDocs :
        /\ pub \in {S \in StoresOf(PublicDocs, 0, n) : KeysUnique(S)}
        /\ \E m \in 0..(MaxDocs - n) : ev \in StoresOf(EventDocs, n, m)
    /\ req = [p \in Procs |-> Idle]
    /\ clock = MaxStamp
    /\ nextId = MaxDocs
    /\ qs = NoSession
    /\ db = Ready

\* ------------------------------------------------------------------ GET /events
EventQueryFilters ==
    { NoFilter,
      [NoFilter EXCEPT !.event_type = <<"log">>],
      [NoFilter EXCEPT !.user_id = <<"u1">>, !.to_ts = 1],
      [NoFilter EXCEPT !.event_type = <<>>, !.from_ts = 2],
      [NoFilter EXCEPT !.q = <<"u">>] }

Limits == 1..MaxLimit

\* GET /events?offset=0&limit=L
list_events_first ==
    /\ qs.store = "none"
    /\ \E f \in EventQueryFilters, limit \in Limits :
       \E r \in ListEventsResults(ev, f, 0, limit) :
          qs' = [NoSession EXCEPT !.store = "events", !.f = f, !.limit = limit,
                                  !.step = 1, !.total = r.total, !.page1 = r.items]
    /\ UNCHANGED <<ipVars, storeVars, db>>

\* GET /events?offset=L&limit=L
list_events_second ==
    /\ qs.store = "events" /\ qs.step = 1
    /\ \E r \in ListEventsResults(ev, qs.f, qs.limit, qs.limit) :
          qs' = [qs EXCEPT !.step = 2, !.page2 = r.items]
    /\ UNCHANGED <<ipVars, storeVars, db>>

\* GET /events/export
export_events ==
    /\ qs.store = "events" /\ qs.step = 2
    /\ \E items \in ExportEventsResults(ev, qs.f) :
          qs' = [qs EXCEPT !.step = 3, !.exp = items]
    /\ UNCHANGED <<ipVars, storeVars, db>>

\* ------------------------------------------------------------------ GET /public
PublicQueryFilters ==
    { NoFilter,
      [NoFilter EXCEPT !.page = <<"/a">>],
      [NoFilter EXCEPT !.page = <<"b">>, !.q = <<>>],
      [NoFilter EXCEPT !.q = <<"R">>],
      [NoFilter EXCEPT !.page = <<>>, !.q = <<"u">>] }

\* GET /public?offset=0&limit=L
list_public_first ==
    /\ qs.store = "none"
    /\ \E f \in PublicQueryFilters, limit \in Limits :
       \E r \in ListPublicResults(pub, f, 0, limit) :
          qs' = [NoSession EXCEPT !.store = "public", !.f = f, !.limit = r.limit,
                                  !.step = 1, !.total = r.total, !.page1 = r.items]
    /\ UNCHANGED <<ipVars, storeVars, db>>

\* GET /public?offset=L&limit=L
list_public_second ==
    /\ qs.store = "public" /\ qs.step = 1
    /\ \E r \in ListPublicResults(pub, qs.f, qs.limit, qs.limit) :
          qs' = [qs EXCEPT !.step = 2, !.page2 = r.items]
    /\ UNCHANGED <<ipVars, storeVars, db>>

\* GET /public/export
export_public ==
    /\ qs.store = "public" /\ qs.step = 2
    /\ \E items \in ExportPublicResults(pub, qs.f) :
          qs' = [qs EXCEPT !.step = 3, !.exp = items]
    /\ UNCHANGED <<ipVars, storeVars, db>>

\* the list and export endpoints over a store no request is writing to
NextQuery ==
    \/ list_events_first
    \/ list_events_second
    \/ export_events
    \/ list_public_first
    \/ list_public_second
    \/ export_public

SpecQuery == InitStores /\ [][NextQuery]_vars

\* the bulk deletes of both stores, from any store contents
NextBulk ==
    \E p \in Procs :
        \/ delete_public_events(p)
        \/ delete_events(p)
        \/ Return(p)

SpecBulk == InitStores /\ [][NextBulk]_vars

\* ------------------------------------------------------------------ GET /public among writers
\* the query parameters of a GET /public served while other requests write
ListFilters ==
    { NoFilter,
      [NoFilter EXCEPT !.q = <<"R">>] }
ListLimits == {AllLimit, 1}

\* list_public up to its first await: filt, query and total = await query.count()
list_public_count(p) ==
    /\ req[p].pc = "idle"
    /\ \E f \in ListFilters, limit \in ListLimits :
         req' = [req EXCEPT ![p] =
             [Idle EXCEPT !.kind = "list_public", !.pc = "fetch", !.f = f,
                          !.limit = limit,
                          !.total = Cardinality(PublicListMatches(pub, f))]]
    /\ UNCHANGED <<pub, ev, clock, nextId>>
    /\ UNCHANGED <<ipVars, qs, db>>

\* list_public from its second await on: docs = await query...to_list() over
\* the store as it is by then, and the response built from docs and from the
\* total counted before
list_public_fetch(p) ==
    /\ req[p].kind = "list_public" /\ req[p].pc = "fetch"
    /\ \E s \in SortedDesc(PublicListMatches(pub, req[p].f)) :
         LET total == req[p].total
             all == req[p].limit = AllLimit
             lim_int == Max(1, Min(MAX_LIMIT, req[p].limit))
             items == IF all THEN IdsOf(s) ELSE IdsOf(SkipLimit(s, 0, lim_int))
         IN  req' = [req EXCEPT ![p] =
                 [Idle EXCEPT !.kind = "list_public", !.pc = "done",
                              !.status = 200, !.all = all, !.total = total,
                              !.count = Len(items),
                              !.limit = IF all THEN total ELSE lim_int]]
    /\ UNCHANGED <<pub, ev, clock, nextId>>
    /\ UNCHANGED <<ipVars, qs, db>>

\* the visitor store listed while other requests insert, upsert and delete
NextList ==
    \/ Tick
    \/ \E p \in Procs :
        \/ TrackFind(p)
        \/ TrackWrite(p)
        \/ DeletePublicGet(p)
        \/ DeletePublicDelete(p)
        \/ delete_public_events(p)
        \/ list_public_count(p)
        \/ list_public_fetch(p)
        \/ Return(p)

SpecList == Init /\ [][NextList]_vars

\* ------------------------------------------------------------------ startup event
\* app.py: _startup, a plain function whose whole body is the call init_db(),
\* not awaited; the startup event is complete when it returns
_startup ==
    /\ db.entry = "app" /\ db.startup = "pending"
    /\ \E d \in init_db(FALSE, db) : db' = [d EXCEPT !.startup = "done"]
    /\ UNCHANGED <<ipVars, storeVars, qs>>

\* main.py: on_startup, the same handler on the other application
on_startup ==
    /\ db.entry = "main" /\ db.startup = "pending"
    /\ \E d \in init_db(FALSE, db) : db' = [d EXCEPT !.startup = "done"]
    /\ UNCHANGED <<ipVars, storeVars, qs>>

\* the handlers whose first step is a store operation; a bulk delete reaches
\* its store operation when confirm is set
StoreHandlers ==
    {"track", "list_public", "export_public", "delete_public", "bulk_public",
     "hook", "list_events", "export_events", "delete_event", "bulk_events"}

\* a handler served while no document model is registered: its first store
\* operation raises, and the handler's "except Exception" answers 500
store_uninitialised(p) ==
    /\ db.startup = "done" /\ ~db.models
    /\ req[p].pc = "idle"
    /\ \E k \in StoreHandlers :
         req' = [req EXCEPT ![p] =
             [Idle EXCEPT !.kind = k, !.pc = "done", !.status = 500,
                          !.confirm = (k \in {"bulk_public", "bulk_events"})]]
    /\ UNCHANGED <<pub, ev, clock, nextId>>
    /\ UNCHANGED <<ipVars, qs, db>>

\* app.py: GET /, which touches no store
health(p) ==
    /\ db.entry = "app" /\ db.startup = "done"
    /\ req[p].pc = "idle"
    /\ req' = [req EXCEPT ![p] =
           [Idle EXCEPT !.kind = "health", !.pc = "done", !.status = 200]]
    /\ UNCHANGED <<pub, ev, clock, nextId>>
    /\ UNCHANGED <<ipVars, qs, db>>

\* the process from its start: either application, its startup event pending
InitBoot ==
    /\ xff = None /\ xri = None /\ peer = NoClient
    /\ ipRes = Unset /\ hookRes = Unset
    /\ pub = {} /\ ev = {}
    /\ req = [p \in Procs |-> Idle]
    /\ clock = 1 /\ nextId = 0
    /\ qs = <<>>
    /\ db \in {Boot(e) : e \in Entries}

\* the startup event, then the requests the server accepts once it is complete
NextStartup ==
    \/ _startup
    \/ on_startup
    \/ \E p \in Procs :
        \/ store_uninitialised(p)
        \/ health(p)
        \/ Return(p)

SpecStartup == InitBoot /\ [][NextStartup]_vars

\* ------------------------------------------------------------------ C1
\* C1: in every reachable state of the visitor store, whatever the interleaving
\* of upserts, deletes by id and bulk deletes, at most one document exists for
\* each (page, ip) pair, a null ip included.
C1_OnePerPageIp ==
    \A d1 \in pub, d2 \in pub :
        (d1.page = d2.page /\ d1.ip = d2.ip) => d1 = d2

\* two requests raced on the null-ip key: one has inserted its document, the
\* other, having found nothing either, is about to insert
C1_Witness ==
    /\ \E d \in pub : d.ip = None
    /\ \E p \in Procs :
        /\ req[p].kind = "track" /\ req[p].pc = "write"
        /\ req[p].existing = NoId /\ req[p].final_ip = None

\* ------------------------------------------------------------------ C2
\* C2: the upsert is atomic with respect to (page, ip): every POST /public
\* completes with action created or updated; none fails because another
\* request's write came between its lookup and its write.
C2_EveryUpsertSucceeds ==
    \A p \in Procs :
        (req[p].kind = "track" /\ req[p].pc = "done")
            => (req[p].status = 200 /\ req[p].action \in {"created", "updated"})

\* ------------------------------------------------------------------ C3
\* p takes the write step of a POST /public whose lookup found a document that
\* is still in the store
UpdateStep(p) ==
    /\ req[p].kind = "track" /\ req[p].pc = "write"
    /\ req'[p].pc = "done"
    /\ req[p].existing # NoId
    /\ \E d \in pub : d.id = req[p].existing

DocById(store, id) == CHOOSE d \in store : d.id = id

\* what a re-track does to the store and what it answers, the listing aside
UpdateInPlace(p) ==
    LET r == req[p]
        old == DocById(pub, r.existing)
    IN  /\ req'[p].status = 200
        /\ req'[p].action = "updated"
        /\ req'[p].id = r.existing
        /\ Cardinality(pub') = Cardinality(pub)
        /\ \E new \in pub' :
            /\ new.id = old.id /\ new.page = old.page /\ new.ip = old.ip
            /\ new.ref = r.ref
            /\ new.user_agent = r.ua
            /\ new.payload = PublicPayload(r.page, r.ref, r.final_ip, r.ua)
            /\ new.created_at = r.created_at
        /\ \A d \in pub : d.id # old.id => d \in pub'

\* ------------------------------------------------------------------ C5
\* p takes the write step of a POST /public and the write succeeds
TrackedStep(p) ==
    /\ req[p].kind = "track" /\ req[p].pc = "write"
    /\ req'[p].pc = "done" /\ req'[p].status = 200

\* the document the response names is the one stored under (page, used), and
\* its payload carries the same ip
TrackedWith(p, used) ==
    \E d \in pub' :
        /\ d.id = req'[p].id
        /\ d.page = req[p].page
        /\ d.ip = used
        /\ d.payload.data.ip = used

\* C5 as stated: a visitor_info that contains an ip field has that value used as
\* the key and the stored ip, otherwise the server-derived ip is; ip_source is
\* "visitor_info" exactly when the caller's ip was used.
C5_VisitorIpWhenPresent ==
    [][\A p \in Procs : TrackedStep(p) =>
        LET supplied == req[p].vi_ip # Absent
        IN  /\ TrackedWith(p, IF supplied THEN req[p].vi_ip ELSE req[p].server_ip)
            /\ (req'[p].ip_source = "visitor_info") <=> supplied]_vars

\* C5 amended: a visitor_info whose ip field is a non-empty string has that
\* value used as the key and the stored ip; an absent, null or empty ip field
\* leaves the server-derived ip in use; ip_source is "visitor_info" exactly
\* when the caller's ip was used.
C5_VisitorIpWhenNonEmpty ==
    [][\A p \in Procs : TrackedStep(p) =>
        LET supplied == req[p].vi_ip # Absent /\ req[p].vi_ip # None
                        /\ req[p].vi_ip # <<>>
        IN  /\ TrackedWith(p, IF supplied THEN req[p].vi_ip ELSE req[p].server_ip)
            /\ (req'[p].ip_source = "visitor_info") <=> supplied]_vars

\* a request whose visitor_info carried ip2 while the server saw ip1 has been
\* tracked under ip2
C5_Witness ==
    \E p \in Procs :
        /\ req[p].kind = "track" /\ req[p].pc = "done"
        /\ req[p].ip_source = "visitor_info"
        /\ \E d \in pub : d.id = req[p].id /\ d.ip = <<"ip2">>
                          /\ d.payload.data.ip = <<"ip2">>

\* ------------------------------------------------------------------ C7
\* C7: a delete by id that removes no document answers 404; one that removes
\* a document removes exactly that one and answers deleted = 1.
C7_DeleteByIdNeverFalselySucceeds ==
    [][\A p \in Procs :
        (req[p].kind = "delete_event" /\ req[p].pc = "delete" /\ req'[p].pc = "done")
        => IF \E d \in ev : d.id = req[p].target
           THEN /\ ev' = ev \ {DocById(ev, req[p].target)}
                /\ req'[p].status = 200 /\ req'[p].deleted = 1
           ELSE /\ ev' = ev
                /\ req'[p].status = 404]_vars

\* the same statement for DELETE /public/{id}
C7_PublicDeleteByIdNeverFalselySucceeds ==
    [][\A p \in Procs :
        (req[p].kind = "delete_public" /\ req[p].pc = "delete" /\ req'[p].pc = "done")
        => IF \E d \in pub : d.id = req[p].target
           THEN /\ pub' = pub \ {DocById(pub, req[p].target)}
                /\ req'[p].status = 200 /\ req'[p].deleted = 1
           ELSE /\ pub' = pub
                /\ req'[p].status = 404]_vars

BulkStep(p) ==
    /\ req[p].pc = "idle"
    /\ req'[p].pc = "done"
    /\ req'[p].kind \in {"bulk_public", "bulk_events"}

\* C6: a bulk delete without confirm=true answers 400 and leaves both stores as
\* they were, whatever the filters; with confirm=true and no filter it deletes
\* every document of its store, reports how many, and the count over the empty
\* filter is then 0.
C6_BulkDeleteNeedsConfirm ==
    [][\A p \in Procs : BulkStep(p) =>
        /\ ~req'[p].confirm =>
              (req'[p].status = 400 /\ pub' = pub /\ ev' = ev)
        /\ (req'[p].confirm /\ req'[p].unfiltered /\ req'[p].kind = "bulk_public") =>
              /\ req'[p].status = 200
              /\ req'[p].deleted = Cardinality(pub)
              /\ pub' = {} /\ ev' = ev
              /\ Cardinality(PublicListMatches(pub', NoFilter)) = 0
        /\ (req'[p].confirm /\ req'[p].unfiltered /\ req'[p].kind = "bulk_events") =>
              /\ req'[p].status = 200
              /\ req'[p].deleted = Cardinality(ev)
              /\ ev' = {} /\ pub' = pub
              /\ Cardinality(EventListMatches(ev', NoFilter)) = 0]_vars

\* a confirmed, unfiltered bulk delete has emptied a visitor store of two
\* documents, the webhook store untouched
C6_Witness ==
    \E p \in Procs :
        /\ req[p].kind = "bulk_public" /\ req[p].pc = "done"
        /\ req[p].confirm /\ req[p].unfiltered
        /\ req[p].deleted = 2
        /\ pub = {}

\* a refused bulk delete over stores that hold documents
C6_WitnessRefused ==
    \E p \in Procs :
        /\ req[p].kind = "bulk_events" /\ req[p].pc = "done"
        /\ ~req[p].confirm /\ req[p].status = 400
        /\ ev # {}

\* ------------------------------------------------------------------ C8
\* C8: over an unchanged store, the total the list endpoint reports equals the
\* number of documents the export endpoint returns for the same filter, for
\* webhook events and for visitor events.
C8_TotalEqualsExportLength ==
    qs.step = 3 => qs.total = Len(qs.exp)

\* a time-range filter that selects some but not all webhook events
C8_Witness ==
    /\ qs.step = 3 /\ qs.store = "events"
    /\ qs.f.to_ts # NoTs
    /\ qs.total = 1 /\ Len(qs.exp) = 1
    /\ Cardinality(ev) = 2

\* ------------------------------------------------------------------ C9
SeqRange(s) == {s[i] : i \in 1..Len(s)}

\* C9: over an unchanged store, list(offset=0, limit=L) and list(offset=L,
\* limit=L) share no id and, concatenated, are the first 2L documents of the
\* export in the same order, also when documents share a created_at.
C9_PagesPartitionExport ==
    qs.step = 3 =>
        /\ SeqRange(qs.page1) \cap SeqRange(qs.page2) = {}
        /\ qs.page1 \o qs.page2 = SubSeq(qs.exp, 1, Min(2 * qs.limit, Len(qs.exp)))

\* the same statement restricted to stores in which no two documents share a
\* created_at
C9_PagesPartitionExportNoTies ==
    (/\ qs.step = 3
     /\ \A d1 \in ev \cup pub, d2 \in ev \cup pub :
            d1.created_at = d2.created_at => d1.id = d2.id)
    => /\ SeqRange(qs.page1) \cap SeqRange(qs.page2) = {}
       /\ qs.page1 \o qs.page2 = SubSeq(qs.exp, 1, Min(2 * qs.limit, Len(qs.exp)))

\* ------------------------------------------------------------------ C4
ValidOrNull(ip) == ip = None \/ (Len(ip) = 1 /\ ip[1] \in IpAtoms)

\* C4: whatever the X-Forwarded-For, X-Real-IP and peer values are, the ip
\* resolved for POST /public and for POST /hook is a syntactically valid
\* address or null, never the raw malformed header string.
C4_ResolvedIpValidOrNull ==
    /\ ipRes # Unset => ValidOrNull(ipRes)
    /\ hookRes # Unset => ValidOrNull(hookRes)

\* ------------------------------------------------------------------ C10
\* the i-th comma-separated segment of the header, trimmed of blanks and quotes
TrimmedSegment(h, i) ==
    StripChars(StripChars(Split(_normalize_header_value(h))[i], {Blank}), Quotes)

SegmentCount(h) == Len(Split(_normalize_header_value(h)))

\* the priority chain over a chosen X-Forwarded-For candidate
PriorityChain(cand, hxri, hpeer) ==
    IF ValidOrNull(cand) /\ cand # None THEN cand
    ELSE IF ValidOrNull(_normalize_header_value(hxri))
            /\ _normalize_header_value(hxri) # None
         THEN _normalize_header_value(hxri)
    ELSE IF hpeer # NoClient /\ ValidOrNull(hpeer) THEN hpeer
    ELSE None

NonEmptySegments(h) == {i \in 1..SegmentCount(h) : TrimmedSegment(h, i) # <<>>}

FirstNonEmptySegment(h) ==
    IF NonEmptySegments(h) = {} THEN None
    ELSE TrimmedSegment(h, CHOOSE i \in NonEmptySegments(h) :
                               \A j \in NonEmptySegments(h) : i <= j)

NormalisedUserAgent(ua) ==
    /\ ua # None
    /\ ua = StripChars(ua, {Blank})

\* C11: every stored record, WebhookEvent and visitor record alike, has a
\* user_agent that is a string and never null: the User-Agent header trimmed
\* of surrounding whitespace, the empty string when the header is absent.
C11_UserAgentNeverNull ==
    \A d \in ev \cup pub : NormalisedUserAgent(d.user_agent)

\* the visitor half of the statement, which public_track keeps through client_ua
C11_VisitorUserAgentNeverNull ==
    \A d \in pub : NormalisedUserAgent(d.user_agent)

\* ------------------------------------------------------------------ C12
\* C12: every response of GET /public with limit "all" has
\* total = count = limit = the number of items returned, also when other
\* requests insert, upsert or delete visitor records while it is served.
C12_ListAllTotalIsCount ==
    \A p \in Procs :
        (req[p].kind = "list_public" /\ req[p].pc = "done" /\ req[p].all)
        => /\ req[p].total = req[p].count
           /\ req[p].limit = req[p].count

\* ------------------------------------------------------------------ C13
\* the store initialised: init_db run to completion, the client handle set and
\* the document models registered
StoreInitialised ==
    /\ db.client # "none"
    /\ db.models
    /\ db.coroutine = "finished"

\* C13: once the startup event has completed the store is initialised, so no
\* request handler runs a store operation against an uninitialised store.
C13_StartedImpliesInitialised ==
    /\ db.startup = "done" => StoreInitialised
    /\ \A p \in Procs : req[p].kind \in StoreHandlers => StoreInitialised

====
